---- MODULE Spec2Model ----
(***************************************************************************)
(* A model of pulsar's task-queue backend                                  *)
(* (src/pulsar/apps/tasks/backend.py): the queuing protocol with its lock  *)
(* table, the poll-and-dispatch loop, the execution of a task on a pool    *)
(* thread, the completion waiters and the task_done handler.               *)
(*                                                                         *)
(* One backend instance (one worker, one control loop, one thread pool)    *)
(* shares the store with a peer process that only queues tasks.  Every     *)
(* store operation is a suspension point of its coroutine, so a coroutine  *)
(* is split into one action per stretch of code between two suspensions.   *)
(***************************************************************************)
EXTENDS Integers, Sequences, FiniteSets, TLC

(***************************************************************************)
(* Bounds of the model.                                                    *)
(***************************************************************************)
\* number of queue_task calls (each call draws one fresh task id)
MaxCalls == 2
\* largest value of the clock; the clock starts at 1
MaxTime == 3
\* number of queue_task calls in the specification of the waiters
MaxWaitCalls == 1
\* number of queue_task calls in the specification of the queuing protocol
MaxQueueCalls == 2
\* largest time, in seconds, handed to is_due and scheduled_last_run_at
MaxDueTime == 6
\* largest run_every, in seconds, handed to them
MaxEvery == 3
\* number of periodic entries handed to one tick
MaxEntries == 2

(***************************************************************************)
(* Configuration of the backend instance (TaskBackend.__init__).           *)
(***************************************************************************)
\* backlog: the ceiling on concurrent tasks
backlog == 1
\* max_tasks: tasks processed before the worker restarts, 0 for no limit
max_tasks == 2

\* Python's None in an integer-valued field
NoneT == -1
\* Python's truth value of an integer-or-None
Truthy(x) == x # NoneT /\ x # 0

(***************************************************************************)
(* Status codes (module states): codes decrease as a task advances, so     *)
(* that status > STARTED is the pre-execution range.                       *)
(***************************************************************************)
SUCCESS == 1
FAILURE == 2
UNKNOWN == 3
REVOKED == 4
STARTED == 5
RETRY == 6
QUEUED == 7
PENDING == 8
READY_STATES == {REVOKED, FAILURE, SUCCESS}

(***************************************************************************)
(* Strings are sequences of one-character strings, so that formatting and  *)
(* joining are computed character by character.                            *)
(***************************************************************************)
\* the characters keys are made of, in lexicographic order
KeyOrder == <<"a", "b">>
Keys == {KeyOrder[i] : i \in DOMAIN KeyOrder}


\* the decimal digits of a small natural number
Digit(n) == <<"0", "1", "2", "3", "4", "5", "6", "7", "8", "9">>[n + 1]

\* '%s' % v : a value is an integer [int |-> n] or a string [str |-> chars]
Str(v) == IF "int" \in DOMAIN v THEN <<Digit(v.int)>> ELSE v.str

\* the keys of a kwargs dictionary, given as a sequence of <<key, value>>
\* pairs in the caller's order
KwKeys(kwargs) == {kwargs[i][1] : i \in DOMAIN kwargs}

\* kwargs[k]
KwGet(kwargs, k) == LET i == CHOOSE j \in DOMAIN kwargs : kwargs[j][1] = k
                    IN  kwargs[i][2]

\* the caller's own order of the keys: what iterating the dictionary
\* without sorting gives
UnsortedKeys(kwargs) == [i \in DOMAIN kwargs |-> kwargs[i][1]]

\* sorted(kwargs)
SortedKeys(kwargs) == SelectSeq(KeyOrder, LAMBDA k : k \in KwKeys(kwargs))

RECURSIVE Join(_, _)
\* sep.join(parts)
Join(sep, parts) ==
    IF parts = <<>> THEN <<>>
    ELSE IF Len(parts) = 1 THEN parts[1]
    ELSE parts[1] \o sep \o Join(sep, Tail(parts))

\* self.name of the backend
BackendName == <<"m">>

\* sha1(name).hexdigest(): a digest, taken to be free of collisions
Sha1(s) == <<"#">> \o s

\* the string the lock key is the digest of (generate_task_ids, else branch)
LockName(kwargs) ==
    IF kwargs # <<>>
    THEN LET keys == SortedKeys(kwargs)
             kw == [i \in DOMAIN keys |->
                      <<keys[i], "=">> \o Str(KwGet(kwargs, keys[i]))]
         IN  BackendName \o <<" ">> \o Join(<<",", " ">>, kw)
    ELSE BackendName

\* a lock id for every task, whatever can_overlap is
always_lock(can_overlap, kwargs) == Sha1(LockName(kwargs))

\* generate_task_ids: the lock id of a task, <<>> standing for None
generate_lock_id(can_overlap, kwargs) ==
    IF can_overlap THEN <<>> ELSE Sha1(LockName(kwargs))

(***************************************************************************)
(* The job registry.  The worker's registry holds "sync" (instances must   *)
(* not overlap, no timeout), "lap" (instances may overlap, timeout 1),      *)
(* "beat" (a periodic job, instances must not overlap, no timeout) and     *)
(* "maybe" (instances may overlap for some arguments, no timeout).         *)
(* The peer process that queues tasks also registers "ghost", which the    *)
(* worker does not know.                                                   *)
(***************************************************************************)
Job(can_overlap, timeout) == [can_overlap |-> can_overlap, timeout |-> timeout]

Registry == [n \in {"sync", "lap", "beat", "maybe"} |->
               CASE n = "lap" -> Job(TRUE, 1)
                 [] n = "maybe" -> Job(TRUE, NoneT)
                 [] OTHER -> Job(FALSE, NoneT)]

\* the jobs whose can_overlap is a callable: the one of "maybe" returns
\* true when the argument a is given (the can_overlap of its registry
\* entry stands for the callable and is not read)
Callable == {"maybe"}

\* generate_task_ids: job.can_overlap, called with the arguments when it is
\* a callable
can_overlap_of(jobname, job, kwargs) ==
    IF jobname \in Callable THEN "a" \in KwKeys(kwargs) ELSE job.can_overlap

\* registry.filter_types('periodic'): "beat" is a periodic job
Periodic == {"beat"}

PeerRegistry == [n \in DOMAIN Registry \cup {"ghost"} |->
                   IF n = "ghost" THEN Job(TRUE, 1) ELSE Registry[n]]

\* a registry that holds every job name a caller may give
AnyRegistry(via) == PeerRegistry

RegistryOf(via) == IF via = "peer" THEN PeerRegistry ELSE Registry

(***************************************************************************)
(* The queue_task requests the model draws from.                           *)
(***************************************************************************)
V1 == [int |-> 1]
V2 == [int |-> 2]
KwAB == <<<<"a", V1>>, <<"b", V2>>>>
KwBA == <<<<"b", V2>>, <<"a", V1>>>>
KwA == <<<<"a", V2>>>>

Request(via, jobname, kwargs, expiry) ==
    [via |-> via, jobname |-> jobname, kwargs |-> kwargs, expiry |-> expiry]

Requests == { Request("local", "sync", KwAB, NoneT),
              Request("local", "sync", KwBA, NoneT),
              Request("local", "sync", KwA, 0),
              Request("peer", "ghost", <<>>, NoneT) }

\* the requests of the specification of the waiters: tasks of "lap", which
\* may succeed, fail or expire
WaitRequests == { Request("local", "lap", <<>>, 0) }

\* the request of the specification of the timeouts: a task with no expiry
TimeoutRequests == { Request("local", "sync", KwA, NoneT) }

\* the argument values and the kwargs dictionaries generate_task_ids is
\* applied to on its own: integers and strings, at most one value per key
S1 == [str |-> <<"1">>]
S1b2 == [str |-> <<"1", ",", " ", "b", "=", "2">>]
LockValues == {V1, V2, S1, S1b2}
ArgSets ==
    {<<>>}
    \cup {<<<<k, v>>>> : k \in Keys, v \in LockValues}
    \cup {<<<<k[1], v[1]>>, <<k[2], v[2]>>>> :
            k \in {kk \in Keys \X Keys : kk[1] # kk[2]},
            v \in LockValues \X LockValues}

\* two kwargs dictionaries are equal: same keys, same value under each key
SameArgs(kw1, kw2) ==
    /\ KwKeys(kw1) = KwKeys(kw2)
    /\ \A k \in KwKeys(kw1) : KwGet(kw1, k) = KwGet(kw2, k)

\* the requests of the specification of the queuing protocol, all made on
\* the backend itself: a job that may overlap, a periodic job that must
\* not, with two argument sets, another job that must not overlap, and a
\* job the registry does not hold
QueueRequests == { Request("local", "lap", <<>>, NoneT),
                   Request("local", "sync", <<>>, NoneT),
                   Request("local", "beat", <<>>, NoneT),
                   Request("local", "beat", KwA, NoneT),
                   Request("local", "ghost", <<>>, NoneT) }

\* the requests of the specification of overlapping tasks: a job whose
\* can_overlap returns true for the arguments of one request and false for
\* those of the other
OverlapRequests == { Request("local", "maybe", KwA, NoneT),
                     Request("local", "maybe", <<>>, 1) }

Ids == 1..MaxCalls
NoTask == [name |-> "none", lock_id |-> <<>>, expiry |-> NoneT,
           kwargs |-> <<>>, status |-> 0, result |-> "None"]
\* a pool thread: where _execute_task stands, the task it was handed, and
\* its local variables status and result
NoThread == [pc |-> "none", task |-> NoTask, status |-> 0, result |-> "None"]
\* the callers of wait_for_task
Waiters == {"w1", "w2"}
\* no Deferred
NoHandle == "none"
\* a caller of wait_for_task: where its coroutine stands, the id it asked
\* for, the record get_task gave it, the Deferred it is suspended on, the
\* record it was resolved with and how many times it was resolved
NoWaiter == [pc |-> "idle", id |-> 0, task |-> NoTask, handle |-> NoHandle,
             got |-> NoTask, n |-> 0]

VARIABLES
    now,          \* the value time.time() returned last
    ncalls,       \* number of queue_task calls made: the last id drawn
    calls,        \* calls[i]: the queue_task coroutine that drew id i
    tasks,        \* store: the hash <name>_task:<id> of each id
    locks,        \* store: the hash <name>_locks, lock id -> task id
    inqueue,      \* store: the list <name>_inqueue, head first
    outqueue,     \* store: the list <name>_outqueue, head first
    events,       \* events[i]: channels published for id i, in order
    hist,         \* hist[i]: statuses written to the record of i, in order
    running,      \* worker.is_running()
    poller,       \* the poll loop: where may_pool_task stands
    processed,    \* self.processed
    concurrent_tasks,  \* self.concurrent_tasks
    exec,         \* exec[i]: the pool thread running _execute_task for id i
    waiters,      \* waiters[w]: the wait_for_task coroutine of caller w
    callbacks,    \* self.callbacks: callbacks[i] is the Deferred stored for i
    inbox,        \* task_done messages delivered to this backend, oldest first
    handlers,     \* task_done_callback coroutines suspended on get_task
    lockargs,     \* two kwargs dictionaries handed to generate_task_ids
    lockkeys,     \* the lock ids generate_task_ids returned for them
    schedule_periodic,  \* self.local.schedule_periodic
    entries,      \* self.entries: whether it is built, and the entries by job name
    sched,        \* a schedule entry and a time handed to is_due
    due,          \* what Schedule.is_due returned for it
    anchored,     \* what scheduled_last_run_at returned for it
    tickin,       \* the entries handed to one tick, in iteration order
    tickout,      \* what the tick did with them
    task_poller,  \* self.local.task_poller: the handle start() stored
    closed,       \* close(worker) was called
    peer_tasks,   \* the concurrency set of a peer worker on the same store
    self_max_tasks  \* self.max_tasks

clientVars == <<ncalls, calls>>
storeVars == <<tasks, locks, inqueue, outqueue>>
logVars == <<events, hist>>
workerVars == <<running, poller, processed, concurrent_tasks, exec>>
waitVars == <<waiters, callbacks, handlers>>
lockVars == <<lockargs, lockkeys>>
schedVars == <<schedule_periodic, entries>>
dueVars == <<sched, due, anchored>>
tickVars == <<tickin, tickout>>
\* the variables of the specifications that apply one function on its own
pureVars == <<lockVars, dueVars, tickVars>>
hostVars == <<task_poller, closed, peer_tasks, self_max_tasks>>

vars == <<now, clientVars, storeVars, logVars, workerVars, waitVars, inbox,
          schedVars, pureVars, hostVars>>

\* the ids whose record exists in the store
Stored == {i \in Ids : tasks[i] # NoTask}

\* get_time(expiry, start)
get_time(expiry, start) == start + expiry

\* the backend, its store and its callers after construction
InitBackend ==
    /\ now = 1
    /\ ncalls = 0
    /\ calls = [i \in Ids |-> [pc |-> "none", task |-> NoTask]]
    /\ tasks = [i \in Ids |-> NoTask]
    /\ locks = {}
    /\ inqueue = <<>>
    /\ outqueue = <<>>
    /\ events = [i \in Ids |-> <<>>]
    /\ hist = [i \in Ids |-> <<>>]
    /\ running = TRUE
    /\ poller = "unstarted"
    /\ processed = 0
    /\ concurrent_tasks = {}
    /\ exec = [i \in Ids |-> NoThread]
    /\ waiters = [w \in Waiters |-> NoWaiter]
    /\ callbacks = [i \in Ids |-> NoHandle]
    /\ inbox = <<>>
    /\ handlers = {}

\* the names Task.info can resolve: its parameter and the names the module
\* binds at top level
InfoScope == {"self", "sys", "logging", "time", "timedelta", "sha1",
              "in_loop", "Failure", "EventHandler", "PulsarException",
              "Deferred", "coroutine_return", "run_in_loop_thread",
              "in_loop_thread", "itervalues", "pickle", "to_string",
              "create_store", "PubSubClient", "odm", "LocalMixin",
              "local_property", "local_method", "lazy_string",
              "gen_unique_id", "JobRegistry", "states", "LOGGER",
              "task_backends", "timedelta_seconds", "get_time",
              "format_time", "nice_task_message", "TaskNotAvailable",
              "TaskTimeout", "TaskConsumer", "Task", "TaskClient",
              "TaskBackend", "Schedule", "SchedulerEntry",
              "PulsarTaskBackend"}

\* datetime.now() raises NameError unless the module binds datetime
datetime_raises == "datetime" \notin InfoScope

\* self.entries before it is first read: nothing is built
Unbuilt == [built |-> FALSE, names |-> {},
            last_run_at |-> [n \in Periodic |-> NoneT],
            total_run_count |-> [n \in Periodic |-> 0]]

\* _setup_schedule() at the time given: () when the backend does not
\* schedule periodic jobs, else a SchedulerEntry for each periodic job of
\* the registry, with last_run_at=None replaced by datetime.now() and a
\* count of 0
setup_schedule(time) ==
    IF ~schedule_periodic THEN [Unbuilt EXCEPT !.built = TRUE]
    ELSE [built |-> TRUE, names |-> Periodic \cap DOMAIN Registry,
          last_run_at |-> [n \in Periodic |-> time],
          total_run_count |-> [n \in Periodic |-> 0]]

\* building the entries raises when an entry is built and datetime cannot
\* be resolved
setup_raises ==
    schedule_periodic /\ Periodic \cap DOMAIN Registry # {} /\ datetime_raises

\* entry.next(): last_run_at is set to datetime.now() and the count is
\* incremented
next(e, name, time) ==
    [e EXCEPT !.last_run_at[name] = time, !.total_run_count[name] = @ + 1]

\* schedule_periodic=False, the default of TaskBackend.__init__; the
\* entries are built when they are first read
NoSchedule == schedule_periodic = FALSE /\ entries = Unbuilt

\* start() was not called, so no handle is stored; close() was not
\* called; no peer worker holds a task; max_tasks is the configured one
NoHost ==
    /\ task_poller = "none"
    /\ closed = FALSE
    /\ peer_tasks = {}
    /\ self_max_tasks = max_tasks

\* nothing is handed to generate_task_ids on its own
NoLockArgs == lockargs = <<<<>>, <<>>>> /\ lockkeys = <<>>

\* nothing is handed to is_due and scheduled_last_run_at on their own
NoDueArgs == sched = <<>> /\ due = <<>> /\ anchored = <<>>

\* nothing is handed to tick on its own
NoTickArgs == tickin = <<>> /\ tickout = <<>>

Init ==
    /\ InitBackend
    /\ NoHost
    /\ NoSchedule
    /\ NoLockArgs
    /\ NoDueArgs
    /\ NoTickArgs

\* the ids of the tasks that are queued or being queued and that
\* _execute_task has not looked at yet
Waiting == {i \in Ids : /\ calls[i].pc \in {"free", "committed", "queued",
                                          "NameError"}
                        /\ exec[i].pc \in {"none", "start"}}

\* time passes.  The code reads the clock to set the expiry of a task and
\* to compare it with the time _execute_task starts at, so the clock is
\* advanced only while a waiting task has an expiry that has not passed:
\* at any other moment the passing of time changes no later comparison.
Tick ==
    /\ now < MaxTime
    /\ \E i \in Waiting :
          Truthy(calls[i].task.expiry) /\ now <= calls[i].task.expiry
    /\ now' = now + 1
    /\ UNCHANGED <<clientVars, storeVars, logVars, workerVars, waitVars, inbox>>
    /\ UNCHANGED <<schedVars, pureVars, hostVars>>

\* a set that overwrites the entry of the key
hset(table, lock_id, id) ==
    {l \in table : l[1] # lock_id} \cup {<<lock_id, id>>}

\* hsetnx(<name>_locks, lock_id, id): the lock table afterwards
hsetnx(table, lock_id, id) ==
    IF \E l \in table : l[1] = lock_id THEN table ELSE table \cup {<<lock_id, id>>}

\* the Task built by queue_task
NewTask(job, jobname, req, queued) ==
    [name |-> jobname,
     lock_id |-> generate_lock_id(can_overlap_of(jobname, job, req.kwargs),
                                  req.kwargs),
     expiry |-> IF req.expiry # NoneT THEN get_time(req.expiry, queued)
                ELSE IF Truthy(job.timeout) THEN get_time(job.timeout, queued)
                ELSE NoneT,
     kwargs |-> req.kwargs,
     status |-> QUEUED,
     result |-> "None"]

(***************************************************************************)
(* queue_task, up to the reply of the conditional set of the lock          *)
(* (maybe_queue_task, hsetnx).  A task without lock id is free to queue.   *)
(***************************************************************************)
QueueTaskCall(req, limit) ==
    /\ ncalls < limit
    /\ req.jobname \in DOMAIN RegistryOf(req.via)
    /\ LET id == ncalls + 1
           job == RegistryOf(req.via)[req.jobname]
           task == NewTask(job, req.jobname, req, now)
           free == task.lock_id = <<>>
                   \/ ~ \E l \in locks : l[1] = task.lock_id
       IN  /\ ncalls' = id
           /\ locks' = IF task.lock_id # <<>>
                       THEN hsetnx(locks, task.lock_id, id) ELSE locks
           /\ calls' = [calls EXCEPT ![id] =
                          [pc |-> IF free THEN "free" ELSE "suppressed",
                           task |-> task]]
    /\ UNCHANGED <<now, tasks, inqueue, outqueue, logVars, workerVars>>
    /\ UNCHANGED <<waitVars, inbox>>
    /\ UNCHANGED <<schedVars, pureVars, hostVars>>

\* maybe_queue_task: the store commits the pipeline (hmset of the record,
\* lpush on the in-queue)
QueueTaskCommit(id) ==
    /\ calls[id].pc = "free"
    /\ tasks' = [tasks EXCEPT ![id] = calls[id].task]
    /\ hist' = [hist EXCEPT ![id] = Append(@, calls[id].task.status)]
    /\ inqueue' = <<id>> \o inqueue
    /\ calls' = [calls EXCEPT ![id].pc = "committed"]
    /\ UNCHANGED <<now, ncalls, locks, outqueue, events, workerVars>>
    /\ UNCHANGED <<waitVars, inbox>>
    /\ UNCHANGED <<schedVars, pureVars, hostVars>>

\* queue_task after maybe_queue_task returned the task: task_queued is
\* published, then self.entries is read (and built if it was not), and the
\* entry of the job, if there is one, is advanced with next().  A NameError
\* raised on the way ends queue_task with the error, after the publish.
QueueTaskPublish(id) ==
    /\ calls[id].pc = "committed"
    /\ events' = [events EXCEPT ![id] = Append(@, "task_queued")]
    /\ LET name == calls[id].task.name
           read == IF entries.built THEN entries ELSE setup_schedule(now)
       IN  IF ~entries.built /\ setup_raises
           THEN /\ calls' = [calls EXCEPT ![id].pc = "NameError"]
                /\ UNCHANGED entries
           ELSE IF name \in read.names
           THEN IF datetime_raises
                THEN /\ calls' = [calls EXCEPT ![id].pc = "NameError"]
                     /\ entries' = read
                ELSE /\ calls' = [calls EXCEPT ![id].pc = "queued"]
                     /\ entries' = next(read, name, now)
           ELSE /\ calls' = [calls EXCEPT ![id].pc = "queued"]
                /\ entries' = read
    /\ UNCHANGED <<now, ncalls, storeVars, hist, workerVars>>
    /\ UNCHANGED <<waitVars, inbox>>
    /\ UNCHANGED <<schedule_periodic, pureVars, hostVars>>

\* queue_task with a job name the registry does not hold: TaskNotAvailable
\* is raised before any id is generated (the slot of the call keeps only
\* the name the caller gave)
QueueTaskUnknown(req, limit) ==
    /\ ncalls < limit
    /\ req.jobname \notin DOMAIN RegistryOf(req.via)
    /\ ncalls' = ncalls + 1
    /\ calls' = [calls EXCEPT ![ncalls + 1] =
                   [pc |-> "TaskNotAvailable",
                    task |-> [NoTask EXCEPT !.name = req.jobname]]]
    /\ UNCHANGED <<now, storeVars, logVars, workerVars, waitVars, inbox>>
    /\ UNCHANGED <<schedVars, pureVars, hostVars>>

\* maybe_queue_task: the store fails on the pipeline, after the lock was
\* set; nothing handles the error, which ends queue_task
QueueTaskFail(id) ==
    /\ calls[id].pc = "free"
    /\ calls' = [calls EXCEPT ![id].pc = "StoreError"]
    /\ UNCHANGED <<now, ncalls, storeVars, logVars, workerVars, waitVars,
                   inbox>>
    /\ UNCHANGED <<schedVars, pureVars, hostVars>>

(***************************************************************************)
(* The worker: start, the poll loop and the pool threads.                  *)
(***************************************************************************)
\* TaskBackend.start: the thread pool is created and may_pool_task is
\* scheduled on the worker's loop; the handle of that first call is stored
\* in self.local.task_poller
Start ==
    /\ poller = "unstarted"
    /\ poller' = "scheduled"
    /\ UNCHANGED <<now, clientVars, storeVars, logVars, running, processed,
                   concurrent_tasks, exec>>
    /\ UNCHANGED <<waitVars, inbox>>
    /\ task_poller' = "pending"
    /\ UNCHANGED <<schedVars, pureVars, closed, peer_tasks, self_max_tasks>>

\* the worker is told to stop by its arbiter: is_running() turns false
Stop ==
    /\ poller # "unstarted"
    /\ running
    /\ running' = FALSE
    /\ UNCHANGED <<now, clientVars, storeVars, logVars, poller, processed,
                   concurrent_tasks, exec>>
    /\ UNCHANGED <<waitVars, inbox>>
    /\ UNCHANGED <<schedVars, pureVars, hostVars>>

\* TaskBackend.close, invoked by the worker when it is stopping: the handle
\* stored by start() is cancelled.  The handles of the later call_later
\* calls are not stored, so the cancel removes the scheduled invocation
\* only while the first one has not run yet.
Close ==
    /\ ~ running
    /\ task_poller # "none"
    /\ ~ closed
    /\ closed' = TRUE
    /\ IF task_poller = "pending"
       THEN poller' = "cancelled" /\ task_poller' = "cancelled"
       ELSE UNCHANGED <<poller, task_poller>>
    /\ UNCHANGED <<now, clientVars, storeVars, logVars, running, processed,
                   concurrent_tasks, exec>>
    /\ UNCHANGED <<waitVars, inbox>>
    /\ UNCHANGED <<schedVars, pureVars, peer_tasks, self_max_tasks>>

\* self.num_concurrent_tasks
num_concurrent_tasks == Cardinality(concurrent_tasks)

\* a poll loop that pops whenever the worker is running, whatever the
\* size of the concurrency set
PollAlways == IF ~running THEN "notrunning" ELSE "pop"

\* a poll loop that does not look at max_tasks
PollUnlimited ==
    IF ~running THEN "notrunning"
    ELSE IF num_concurrent_tasks < backlog THEN "pop" ELSE "full"

\* may_pool_task, the branch an invocation takes:
\*   "notrunning"  the worker is not running
\*   "full"        the concurrency set has reached the backlog
\*   "stop"        max_tasks reached and nothing executing: worker.stop()
\*   "drain"       max_tasks reached, tasks still executing
\*   "pop"         get_task() is called: a blocking pop from the in-queue
PollBranch ==
    IF ~running THEN "notrunning"
    ELSE IF num_concurrent_tasks < backlog
         THEN IF Truthy(self_max_tasks) /\ processed >= self_max_tasks
              THEN IF num_concurrent_tasks = 0 THEN "stop" ELSE "drain"
              ELSE "pop"
         ELSE "full"

\* where an invocation of may_pool_task leaves the poll loop: returned
\* for good, suspended in the pop, or scheduled again by the call_later at
\* the end of the function, which every branch but "stop" reaches
PollNext ==
    CASE PollBranch = "stop" -> "returned"
      [] PollBranch = "pop" -> "popping"
      [] OTHER -> "scheduled"

\* may_pool_task, from its invocation by the loop to its first suspension
\* (the pop) or to its end.  Only the "stop" branch returns without
\* scheduling the next invocation (coroutine_return before call_later).
MayPoolTask ==
    /\ poller = "scheduled"
    /\ poller' = PollNext
    /\ running' = IF PollBranch = "stop" THEN FALSE ELSE running
    /\ UNCHANGED <<now, clientVars, storeVars, logVars, processed,
                   concurrent_tasks, exec>>
    /\ UNCHANGED <<waitVars, inbox>>
    /\ task_poller' = IF task_poller = "pending" THEN "ran" ELSE task_poller
    /\ UNCHANGED <<schedVars, pureVars, closed, peer_tasks, self_max_tasks>>

\* a pop that reads the tail of the in-queue and leaves it there
rpeekpush(inq, ouq) == <<inq[Len(inq)], inq, <<inq[Len(inq)]>> \o ouq>>

\* brpoplpush inqueue outqueue, one command of the store: the id at the
\* tail of the in-queue, and the two queues afterwards
brpoplpush(inq, ouq) ==
    <<inq[Len(inq)], SubSeq(inq, 1, Len(inq) - 1), <<inq[Len(inq)]>> \o ouq>>

\* get_task() with no id: brpoplpush moves the tail of the in-queue to the
\* out-queue and the record is read; then may_pool_task counts the task,
\* adds it to the concurrency set, hands it to the thread pool and
\* schedules its next invocation
PollGotTask ==
    /\ poller = "popping"
    /\ inqueue # <<>>
    /\ LET pop == brpoplpush(inqueue, outqueue)
           id == pop[1]
       IN  /\ inqueue' = pop[2]
           /\ outqueue' = pop[3]
           /\ processed' = processed + 1
           /\ concurrent_tasks' = concurrent_tasks \cup {id}
           /\ exec' = [exec EXCEPT ![id] =
                         [pc |-> "start", task |-> tasks[id],
                          status |-> 0, result |-> "None"]]
    /\ poller' = "scheduled"
    /\ UNCHANGED <<now, clientVars, tasks, locks, logVars, running>>
    /\ UNCHANGED <<waitVars, inbox>>
    /\ UNCHANGED <<schedVars, pureVars, hostVars>>

\* the poll loop of a peer worker on the same store pops an id: the same
\* brpoplpush, and the id goes into the concurrency set of the peer.  What
\* the peer does with the task afterwards is not followed.
PeerPop ==
    /\ inqueue # <<>>
    /\ LET pop == brpoplpush(inqueue, outqueue)
       IN  /\ inqueue' = pop[2]
           /\ outqueue' = pop[3]
           /\ peer_tasks' = peer_tasks \cup {pop[1]}
    /\ UNCHANGED <<now, clientVars, tasks, locks, logVars, workerVars>>
    /\ UNCHANGED <<waitVars, inbox>>
    /\ UNCHANGED <<schedVars, pureVars, task_poller, closed, self_max_tasks>>

\* get_task() with no id: the pop times out on an empty in-queue; the next
\* invocation is scheduled
PollTimeout ==
    /\ poller = "popping"
    /\ inqueue = <<>>
    /\ poller' = "scheduled"
    /\ UNCHANGED <<now, clientVars, storeVars, logVars, running, processed,
                   concurrent_tasks, exec>>
    /\ UNCHANGED <<waitVars, inbox>>
    /\ UNCHANGED <<schedVars, pureVars, hostVars>>

\* Task.info() reads the names states and task: it raises NameError when
\* one of them cannot be resolved
info_raises == ~ ({"states", "task"} \subseteq InfoScope)

\* a save that writes QUEUED back whatever status it is given
save_queued(id, status, result) ==
    /\ tasks' = [tasks EXCEPT ![id].status = QUEUED, ![id].result = result]
    /\ hist' = [hist EXCEPT ![id] = Append(@, QUEUED)]

\* save_task(task_id, status=..., result=...): hmset on the record
save_task(id, status, result) ==
    /\ tasks' = [tasks EXCEPT ![id].status = status, ![id].result = result]
    /\ hist' = [hist EXCEPT ![id] = Append(@, status)]

\* the handler of Exception in _execute_task: it builds the Failure and
\* calls task.info() for the log message before it sets result and status,
\* so the error leaves _execute_task when task.info() raises; otherwise
\* FAILURE is saved with the summary of the failure as result
on_exception(id) ==
    IF info_raises
    THEN /\ exec' = [exec EXCEPT ![id].pc = "crashed"]
         /\ UNCHANGED <<tasks, hist>>
    ELSE /\ save_task(id, FAILURE, "failure")
         /\ exec' = [exec EXCEPT ![id].pc = "saved", ![id].status = FAILURE,
                                 ![id].result = "failure"]

\* a task that is never seen as expired
never_expired(task, time_ended) == FALSE

\* task['expiry'] and time_ended > task['expiry']
expired(task, time_ended) == Truthy(task.expiry) /\ time_ended > task.expiry

\* a check that lets every status through
any_status(task) == TRUE

\* task['status'] > states.STARTED
valid_status(task) == task.status > STARTED

\* _execute_task, from its start to the store's reply to its first save.
\*   job not in the registry: RuntimeError, handled by `except Exception`
\*   status not above STARTED: invalid, the id is discarded and it returns
\*   expired: TaskTimeout, handled: REVOKED is saved with no result
\*   otherwise STARTED is saved, task_started is published and the job
\*   is called
ExecStart(id) ==
    /\ exec[id].pc = "start"
    /\ LET task == exec[id].task
           time_ended == now
       IN  IF task.name \notin DOMAIN Registry
              THEN /\ on_exception(id)
                   /\ UNCHANGED <<concurrent_tasks, events>>
              ELSE IF valid_status(task)
              THEN IF expired(task, time_ended)
                   THEN /\ save_task(id, REVOKED, "None")
                        /\ exec' = [exec EXCEPT ![id].pc = "saved",
                                                ![id].status = REVOKED,
                                                ![id].result = "None"]
                        /\ UNCHANGED <<concurrent_tasks, events>>
                   ELSE /\ save_task(id, STARTED, tasks[id].result)
                        /\ events' = [events EXCEPT
                                        ![id] = Append(@, "task_started")]
                        /\ exec' = [exec EXCEPT ![id].pc = "running"]
                        /\ UNCHANGED concurrent_tasks
              ELSE /\ concurrent_tasks' = concurrent_tasks \ {id}
                   /\ exec' = [exec EXCEPT ![id].pc = "abandoned"]
                   /\ UNCHANGED <<tasks, hist, events>>
    /\ UNCHANGED <<now, clientVars, locks, inqueue, outqueue,
                   running, poller, processed>>
    /\ UNCHANGED <<waitVars, inbox>>
    /\ UNCHANGED <<schedVars, pureVars, hostVars>>

\* the job returns: SUCCESS is saved with its result
ExecJobReturn(id) ==
    /\ exec[id].pc = "running"
    /\ save_task(id, SUCCESS, "ok")
    /\ exec' = [exec EXCEPT ![id].pc = "saved", ![id].status = SUCCESS,
                            ![id].result = "ok"]
    /\ UNCHANGED <<now, clientVars, locks, inqueue, outqueue, events,
                   running, poller, processed, concurrent_tasks>>
    /\ UNCHANGED <<waitVars, inbox>>
    /\ UNCHANGED <<schedVars, pureVars, hostVars>>

\* the job raises: the error is handled by `except Exception`
ExecJobRaise(id) ==
    /\ exec[id].pc = "running"
    /\ on_exception(id)
    /\ UNCHANGED <<now, clientVars, locks, inqueue, outqueue, events,
                   running, poller, processed, concurrent_tasks>>
    /\ UNCHANGED <<waitVars, inbox>>
    /\ UNCHANGED <<schedVars, pureVars, hostVars>>

\* self.concurrent_tasks.discard(task_id), on the pool thread
ExecDiscard(id) ==
    /\ exec[id].pc = "saved"
    /\ concurrent_tasks' = concurrent_tasks \ {id}
    /\ exec' = [exec EXCEPT ![id].pc = "released"]
    /\ UNCHANGED <<now, clientVars, storeVars, logVars, running, poller,
                   processed>>
    /\ UNCHANGED <<waitVars, inbox>>
    /\ UNCHANGED <<schedVars, pureVars, hostVars>>

\* pubsub.publish(task_done), then _execute_task returns
ExecPublishDone(id) ==
    /\ exec[id].pc = "released"
    /\ events' = [events EXCEPT ![id] = Append(@, "task_done")]
    /\ exec' = [exec EXCEPT ![id].pc = "done"]
    /\ UNCHANGED <<now, clientVars, storeVars, hist, running, poller,
                   processed, concurrent_tasks>>
    /\ inbox' = Append(inbox, id)
    /\ UNCHANGED waitVars
    /\ UNCHANGED <<schedVars, pureVars, hostVars>>

(***************************************************************************)
(* The completion waiters and the handler of task_done.                    *)
(***************************************************************************)
\* task.get(field): the record holds the fields that were written to it
TaskGet(task, field) == IF field \in DOMAIN task THEN task[field] ELSE NoneT

\* Task.done(): the record is asked for its field 'state', and READY_STATES
\* is taken to be the documented set
done(task) == TaskGet(task, "state") \in READY_STATES

\* wait_for_task(task_id) by caller w, up to the reply of get_task(task_id)
WaitForTask(w, id) ==
    /\ waiters[w].pc = "idle"
    /\ id \in 1..ncalls
    /\ waiters' = [waiters EXCEPT ![w] =
                     [@ EXCEPT !.pc = "fetched", !.id = id, !.task = tasks[id]]]
    /\ UNCHANGED <<now, clientVars, storeVars, logVars, workerVars,
                   callbacks, handlers, inbox>>
    /\ UNCHANGED <<schedVars, pureVars, hostVars>>

\* a new Deferred for every caller
own_handle(w, id) == w

\* callbacks.get(task_id), and a new Deferred stored when there is none
handle_for(w, id) == IF callbacks[id] # NoHandle THEN callbacks[id] ELSE w

\* wait_for_task after get_task replied.
\*   no record: the coroutine ends with nothing
\*   task.done(): self.pop_callback is called, which TaskBackend does not
\*     define (AttributeError)
\*   otherwise the caller is suspended on the Deferred stored for the id
WaitContinue(w) ==
    /\ waiters[w].pc = "fetched"
    /\ LET id == waiters[w].id
           task == waiters[w].task
       IN  IF task = NoTask
           THEN /\ waiters' = [waiters EXCEPT ![w].pc = "nothing"]
                /\ UNCHANGED callbacks
           ELSE IF done(task)
           THEN /\ waiters' = [waiters EXCEPT ![w].pc = "error"]
                /\ UNCHANGED callbacks
           ELSE /\ callbacks' = [callbacks EXCEPT ![id] = handle_for(w, id)]
                /\ waiters' = [waiters EXCEPT ![w].pc = "pending",
                                              ![w].handle = handle_for(w, id)]
    /\ UNCHANGED <<now, clientVars, storeVars, logVars, workerVars,
                   handlers, inbox>>
    /\ UNCHANGED <<schedVars, pureVars, hostVars>>

\* a task_done message reaches the backend: task_done_callback, up to the
\* reply of get_task(task_id)
DoneFetch ==
    /\ inbox # <<>>
    /\ handlers' = handlers \cup {[id |-> Head(inbox), task |-> tasks[Head(inbox)]]}
    /\ inbox' = Tail(inbox)
    /\ UNCHANGED <<now, clientVars, storeVars, logVars, workerVars,
                   waiters, callbacks>>
    /\ UNCHANGED <<schedVars, pureVars, hostVars>>

\* when_done.callback(task): every caller suspended on the Deferred is
\* resumed with the task
fire(handle, task) ==
    [w \in Waiters |->
       IF waiters[w].pc = "pending" /\ waiters[w].handle = handle
       THEN [waiters[w] EXCEPT !.pc = "resolved", !.got = task, !.n = @ + 1]
       ELSE waiters[w]]

\* task_done_callback after get_task replied: the Deferred of the id is
\* popped from callbacks and fired
DoneFire(h) ==
    /\ h \in handlers
    /\ handlers' = handlers \ {h}
    /\ IF h.task # NoTask
       THEN /\ callbacks' = [callbacks EXCEPT ![h.id] = NoHandle]
            /\ waiters' = IF callbacks[h.id] # NoHandle
                          THEN fire(callbacks[h.id], h.task) ELSE waiters
       ELSE UNCHANGED <<callbacks, waiters>>
    /\ UNCHANGED <<now, clientVars, storeVars, logVars, workerVars, inbox>>
    /\ UNCHANGED <<schedVars, pureVars, hostVars>>

\* a timeout that cancels the Deferred the callers share, and with it
\* every caller suspended on it
cancel_shared(w) ==
    [v \in Waiters |->
       IF v = w \/ (waiters[v].pc = "pending" /\ waiters[w].pc = "pending"
                      /\ waiters[v].handle = waiters[w].handle)
       THEN [waiters[v] EXCEPT !.pc = "timedout"]
       ELSE waiters[v]]

\* set_timeout(timeout) on the coroutine of caller w, when the timeout
\* fires: the suspension of that caller is cancelled
set_timeout(w) == [waiters EXCEPT ![w].pc = "timedout"]

\* the timeout given to wait_for_task fires while the coroutine of caller w
\* waits for the reply of get_task or for the Deferred of the id; the
\* Deferred stays in callbacks
WaitTimeout(w) ==
    /\ waiters[w].pc \in {"fetched", "pending"}
    /\ waiters' = set_timeout(w)
    /\ UNCHANGED <<now, clientVars, storeVars, logVars, workerVars,
                   callbacks, handlers, inbox>>
    /\ UNCHANGED <<schedVars, pureVars, hostVars>>

\* the steps of the store, of the poll loop and of the pool threads
Serve ==
    \/ \E id \in Ids : QueueTaskCommit(id)
    \/ \E id \in Ids : QueueTaskPublish(id)
    \/ Start
    \/ MayPoolTask
    \/ PollGotTask
    \/ PollTimeout
    \/ \E id \in Ids : ExecStart(id)
    \/ \E id \in Ids : ExecJobReturn(id)
    \/ \E id \in Ids : ExecJobRaise(id)
    \/ \E id \in Ids : ExecDiscard(id)
    \/ \E id \in Ids : ExecPublishDone(id)

\* the same steps and the passing of time
Work ==
    \/ Tick
    \/ Serve

(***************************************************************************)
(* Spec: queue_task calls, the worker and its stop, with no caller of      *)
(* wait_for_task (task_done_callback then finds no Deferred to fire).      *)
(***************************************************************************)
Next ==
    \/ \E req \in Requests : QueueTaskCall(req, MaxCalls)
    \/ Stop
    \/ Work

Spec == Init /\ [][Next]_vars

(***************************************************************************)
(* SpecClose: a worker that is stopped and closed at any moment of its     *)
(* poll loop, over tasks that have no expiry.                              *)
(***************************************************************************)
NextClose ==
    \/ \E req \in TimeoutRequests : QueueTaskCall(req, MaxCalls)
    \/ Stop
    \/ Close
    \/ Serve

SpecClose == Init /\ [][NextClose]_vars

(***************************************************************************)
(* SpecShare: two workers on one store, the worker of this backend and a   *)
(* peer that pops from the same in-queue.                                  *)
(***************************************************************************)
NextShare ==
    \/ \E req \in OverlapRequests : QueueTaskCall(req, MaxQueueCalls)
    \/ PeerPop
    \/ Work

SpecShare == Init /\ [][NextShare]_vars

(***************************************************************************)
(* SpecLimit: a worker started once on a backend created with max_tasks=0  *)
(* (the default, no limit) or with a limit up to max_tasks, and more tasks *)
(* queued than the limit allows.                                           *)
(***************************************************************************)
InitLimit ==
    /\ InitBackend
    /\ task_poller = "none"
    /\ closed = FALSE
    /\ peer_tasks = {}
    /\ self_max_tasks \in 0..max_tasks
    /\ NoSchedule
    /\ NoLockArgs
    /\ NoDueArgs
    /\ NoTickArgs

NextLimit ==
    \/ \E req \in OverlapRequests : QueueTaskCall(req, MaxQueueCalls)
    \/ Work

SpecLimit == InitLimit /\ [][NextLimit]_vars

(***************************************************************************)
(* SpecWait: the callers of wait_for_task and task_done_callback, over     *)
(* the tasks of MaxWaitCalls queue_task calls.                             *)
(***************************************************************************)
NextWait ==
    \/ \E req \in WaitRequests : QueueTaskCall(req, MaxWaitCalls)
    \/ Work
    \/ \E w \in Waiters, id \in Ids : WaitForTask(w, id)
    \/ \E w \in Waiters : WaitContinue(w)
    \/ DoneFetch
    \/ \E h \in handlers : DoneFire(h)

SpecWait == Init /\ [][NextWait]_vars

(***************************************************************************)
(* SpecTimeout: callers of wait_for_task that gave a timeout, over tasks   *)
(* that have no expiry.                                                    *)
(***************************************************************************)
NextTimeout ==
    \/ \E req \in TimeoutRequests : QueueTaskCall(req, MaxWaitCalls)
    \/ Serve
    \/ \E w \in Waiters, id \in Ids : WaitForTask(w, id)
    \/ \E w \in Waiters : WaitContinue(w)
    \/ \E w \in Waiters : WaitTimeout(w)
    \/ DoneFetch
    \/ \E h \in handlers : DoneFire(h)

SpecTimeout == Init /\ [][NextTimeout]_vars

(***************************************************************************)
(* SpecQueue: the queuing protocol with its errors (unknown job names,     *)
(* failures of the store), on a backend that schedules periodic jobs or    *)
(* not.  No worker is started.                                             *)
(***************************************************************************)
InitQueue ==
    /\ InitBackend
    /\ NoHost
    /\ schedule_periodic \in BOOLEAN
    /\ entries = Unbuilt
    /\ NoLockArgs
    /\ NoDueArgs
    /\ NoTickArgs

NextQueue ==
    \/ \E req \in QueueRequests : QueueTaskCall(req, MaxQueueCalls)
    \/ \E req \in QueueRequests : QueueTaskUnknown(req, MaxQueueCalls)
    \/ \E id \in Ids : QueueTaskCommit(id)
    \/ \E id \in Ids : QueueTaskFail(id)
    \/ \E id \in Ids : QueueTaskPublish(id)

SpecQueue == InitQueue /\ [][NextQueue]_vars

(***************************************************************************)
(* SpecExec: _execute_task on a pool thread, for every task the store may  *)
(* hand to it: any status, a job of the registry or not, an expiry or      *)
(* none, alone or next to a task that is running.                          *)
(***************************************************************************)
\* a record of the store: the task a client queued, as saves left it
Handed(jobname, status, expiry) ==
    [NewTask(PeerRegistry[jobname], jobname,
             Request("peer", jobname, KwA, NoneT), 0)
        EXCEPT !.status = status,
               !.expiry = expiry,
               !.result = IF status = SUCCESS THEN "ok"
                          ELSE IF status = FAILURE THEN "failure" ELSE "None"]

\* the records the store may hold for an id of the queue
HandedTasks ==
    { Handed(n, st, e) : n \in {"sync", "ghost"}, st \in SUCCESS..PENDING,
                         e \in {NoneT, MaxTime - 1} }

\* a task that is running on another pool thread
Neighbour == [Handed("sync", STARTED, NoneT) EXCEPT !.kwargs = KwAB,
                                                     !.lock_id = Sha1(LockName(KwAB))]

\* may_pool_task popped id 1, read its record and handed it to the pool;
\* id 2, if it was queued, is running
InitExec ==
    /\ \E t \in HandedTasks, other \in BOOLEAN :
          /\ ncalls = IF other THEN 2 ELSE 1
          /\ calls = [i \in Ids |->
                        IF i = 1 THEN [pc |-> "queued", task |-> t]
                        ELSE IF i = 2 /\ other
                        THEN [pc |-> "queued",
                              task |-> [Neighbour EXCEPT !.status = QUEUED]]
                        ELSE [pc |-> "none", task |-> NoTask]]
          /\ tasks = [i \in Ids |->
                        IF i = 1 THEN t
                        ELSE IF i = 2 /\ other THEN Neighbour ELSE NoTask]
          /\ events = [i \in Ids |->
                         IF i = 1 THEN <<"task_queued">>
                         ELSE IF i = 2 /\ other
                         THEN <<"task_queued", "task_started">> ELSE <<>>]
          /\ hist = [i \in Ids |->
                       IF i = 1 THEN <<QUEUED>>
                       ELSE IF i = 2 /\ other THEN <<QUEUED, STARTED>> ELSE <<>>]
          /\ exec = [i \in Ids |->
                       IF i = 1 THEN [pc |-> "start", task |-> t,
                                      status |-> 0, result |-> "None"]
                       ELSE IF i = 2 /\ other
                       THEN [pc |-> "running",
                             task |-> [Neighbour EXCEPT !.status = QUEUED],
                             status |-> 0, result |-> "None"]
                       ELSE NoThread]
          /\ concurrent_tasks = IF other THEN {1, 2} ELSE {1}
          /\ processed = IF other THEN 2 ELSE 1
          /\ outqueue = IF other THEN <<1, 2>> ELSE <<1>>
    /\ now = 1
    /\ locks = {}
    /\ inqueue = <<>>
    /\ running = TRUE
    /\ poller = "scheduled"
    /\ waiters = [w \in Waiters |-> NoWaiter]
    /\ callbacks = [i \in Ids |-> NoHandle]
    /\ inbox = <<>>
    /\ handlers = {}
    /\ task_poller = "ran"
    /\ closed = FALSE
    /\ peer_tasks = {}
    /\ self_max_tasks = max_tasks
    /\ NoSchedule
    /\ NoLockArgs
    /\ NoDueArgs
    /\ NoTickArgs

NextExec ==
    \/ Tick
    \/ \E id \in Ids : ExecStart(id)
    \/ \E id \in Ids : ExecJobReturn(id)
    \/ \E id \in Ids : ExecJobRaise(id)
    \/ \E id \in Ids : ExecDiscard(id)
    \/ \E id \in Ids : ExecPublishDone(id)

SpecExec == InitExec /\ [][NextExec]_vars

(***************************************************************************)
(* SpecOverlap: tasks of jobs that may overlap, queued while the worker    *)
(* runs the earlier ones.                                                  *)
(***************************************************************************)
NextOverlap ==
    \/ \E req \in OverlapRequests : QueueTaskCall(req, MaxQueueCalls)
    \/ Work

SpecOverlap == Init /\ [][NextOverlap]_vars

(***************************************************************************)
(* The schedule of a periodic job.  Datetimes and timedeltas are whole     *)
(* numbers of seconds.                                                     *)
(***************************************************************************)
\* a timedelta taken as it is, negative or not
raw_seconds(delta) == delta

\* timedelta_seconds(delta): max(delta.total_seconds(), 0)
timedelta_seconds(delta) == IF delta < 0 THEN 0 ELSE delta

\* Schedule.is_due(last_run_at, now) of a schedule with run_every
is_due(run_every, last_run_at, time) ==
    LET rem_delta == last_run_at + run_every - time
        rem == timedelta_seconds(rem_delta)
    IN  IF rem = 0 THEN <<TRUE, timedelta_seconds(run_every)>>
        ELSE <<FALSE, rem>>

RECURSIVE AnchorUp(_, _, _)
\* while anchor <= last_run_at: anchor += run_every
AnchorUp(anchor, last_run_at, run_every) ==
    IF anchor <= last_run_at
    THEN AnchorUp(anchor + run_every, last_run_at, run_every)
    ELSE anchor

RECURSIVE AnchorDown(_, _, _)
\* while anchor > last_run_at: anchor -= run_every
AnchorDown(anchor, last_run_at, run_every) ==
    IF anchor > last_run_at
    THEN AnchorDown(anchor - run_every, last_run_at, run_every)
    ELSE anchor

\* SchedulerEntry.scheduled_last_run_at
scheduled_last_run_at(anchor, last_run_at, run_every) ==
    IF Truthy(last_run_at) /\ Truthy(anchor)
    THEN LET times == timedelta_seconds(last_run_at - anchor)
                      \div timedelta_seconds(run_every)
         IN  IF times # 0
             THEN AnchorDown(AnchorUp(anchor + times * run_every,
                                      last_run_at, run_every),
                             last_run_at, run_every)
             ELSE anchor
    ELSE last_run_at

\* a schedule entry and the time it is looked at
SchedArg(anchor, last_run_at, run_every, time) ==
    [anchor |-> anchor, last_run_at |-> last_run_at, run_every |-> run_every,
     time |-> time]

\* the entries is_due and scheduled_last_run_at are applied to on their
\* own: every entry within the bounds, and a job that runs every 60
\* seconds looked at 61 and 30 seconds after its last run
SchedArgs ==
    {SchedArg(a, l, e, t) : a \in {NoneT} \cup 1..MaxDueTime,
                            l \in 1..MaxDueTime, e \in 1..MaxEvery,
                            t \in 1..MaxDueTime}
    \cup {SchedArg(NoneT, 100, 60, 161), SchedArg(NoneT, 100, 60, 130)}

(***************************************************************************)
(* SpecDue: Schedule.is_due and SchedulerEntry.scheduled_last_run_at on    *)
(* their own, applied to an entry drawn from SchedArgs.                    *)
(***************************************************************************)
InitDue ==
    /\ InitBackend
    /\ NoHost
    /\ NoSchedule
    /\ NoLockArgs
    /\ NoTickArgs
    /\ sched \in SchedArgs
    /\ due = <<>>
    /\ anchored = <<>>

\* schedule.is_due(last_run_at, now=time)
IsDue ==
    /\ due = <<>>
    /\ due' = is_due(sched.run_every, sched.last_run_at, sched.time)
    /\ UNCHANGED <<now, clientVars, storeVars, logVars, workerVars,
                   waitVars, inbox, schedVars, lockVars, tickVars, hostVars>>
    /\ UNCHANGED <<sched, anchored>>

\* entry.scheduled_last_run_at
ScheduledLastRunAt ==
    /\ anchored = <<>>
    /\ anchored' = <<scheduled_last_run_at(sched.anchor, sched.last_run_at,
                                           sched.run_every)>>
    /\ UNCHANGED <<now, clientVars, storeVars, logVars, workerVars,
                   waitVars, inbox, schedVars, lockVars, tickVars, hostVars>>
    /\ UNCHANGED <<sched, due>>

NextDue == IsDue \/ ScheduledLastRunAt

SpecDue == InitDue /\ [][NextDue]_vars

(***************************************************************************)
(* SpecTick: one tick of the scheduler over the periodic entries of a      *)
(* backend, with the time given or not.                                    *)
(***************************************************************************)
\* the attributes of TaskBackend and PulsarTaskBackend
BackendAttrs == {"events", "_loop", "schedule_periodic", "logger", "store",
                 "concurrent_tasks", "num_concurrent_tasks", "entries",
                 "registry", "callbacks", "channel", "queue_task",
                 "bind_event", "wait_for_task", "maybe_queue_task",
                 "get_task", "get_tasks", "save_task", "pubsub", "start",
                 "close", "generate_task_ids", "tick", "job_list",
                 "next_scheduled", "may_pool_task", "_execute_task",
                 "_setup_schedule", "_maybe_schedule", "task_done_callback",
                 "store_client", "_build_task", "name", "poll_timeout",
                 "backlog", "max_tasks", "processed", "next_run"}

\* self.run_job(entry.name) raises AttributeError unless the backend has
\* the attribute
run_job_raises == "run_job" \notin BackendAttrs

\* the periodic entries a tick may find, last run at time 1
TickEntries ==
    {[anchor |-> NoneT, last_run_at |-> 1, run_every |-> e] : e \in 1..MaxEvery}

RECURSIVE Lists(_)
\* the lists of k entries
Lists(k) ==
    IF k = 0 THEN {<<>>}
    ELSE {Append(l, e) : l \in Lists(k - 1), e \in TickEntries}

\* the lists of at most MaxEntries entries
EntryLists == UNION {Lists(k) : k \in 0..MaxEntries}

\* as many entries that were not looked at
Skipped(n) == [k \in 1..n |-> "skipped"]

RECURSIVE TickLoop(_, _, _, _, _)
\* the body of the try statement of tick from entry k on: the loop over the
\* entries, left at the first error.  entry.is_due(now=None) resolves
\* datetime, and a due entry is handed to self.run_job
TickLoop(ents, k, time, out, remaining_times) ==
    IF k > Len(ents) THEN <<out, remaining_times>>
    ELSE IF time = NoneT /\ datetime_raises
    THEN <<out \o <<"raised">> \o Skipped(Len(ents) - k), remaining_times>>
    ELSE LET e == ents[k]
             d == is_due(e.run_every,
                         scheduled_last_run_at(e.anchor, e.last_run_at,
                                               e.run_every),
                         time)
         IN  IF d[1] /\ run_job_raises
             THEN <<out \o <<"raised">> \o Skipped(Len(ents) - k),
                    remaining_times>>
             ELSE TickLoop(ents, k + 1, time,
                           Append(out, IF d[1] THEN "queued" ELSE "waits"),
                           IF Truthy(d[2]) THEN remaining_times \cup {d[2]}
                           ELSE remaining_times)

\* the least of the remaining times
Min(S) == CHOOSE x \in S : \A y \in S : x <= y

\* tick(now=time) over the entries ents, built already or not: what was
\* done with each entry, the remaining times collected, and next_run
tick(time, ents, built) ==
    IF ~schedule_periodic THEN <<Skipped(Len(ents)), {}, "unset">>
    ELSE LET loop == IF ~built /\ ents # <<>> /\ datetime_raises
                     THEN <<Skipped(Len(ents)), {}>>
                     ELSE TickLoop(ents, 1, time, <<>>, {})
         IN  IF time = NoneT /\ datetime_raises
             THEN <<loop[1], loop[2], "NameError">>
             ELSE <<loop[1], loop[2],
                    IF loop[2] # {} THEN time + Min(loop[2]) ELSE time>>

InitTick ==
    /\ InitBackend
    /\ NoHost
    /\ schedule_periodic \in BOOLEAN
    /\ entries = Unbuilt
    /\ NoLockArgs
    /\ NoDueArgs
    /\ tickin \in ({NoneT} \cup 1..MaxTime) \X EntryLists \X BOOLEAN
    /\ tickout = <<>>

\* backend.tick(now), to its end
TickCall ==
    /\ tickout = <<>>
    /\ tickout' = tick(tickin[1], tickin[2], tickin[3])
    /\ UNCHANGED <<now, clientVars, storeVars, logVars, workerVars,
                   waitVars, inbox, schedVars, lockVars, dueVars, hostVars>>
    /\ UNCHANGED tickin

NextTick == TickCall

SpecTick == InitTick /\ [][NextTick]_vars

(***************************************************************************)
(* SpecLock: generate_task_ids on its own, applied for a job that must     *)
(* not overlap to two kwargs dictionaries drawn from ArgSets.              *)
(***************************************************************************)
InitLock ==
    /\ InitBackend
    /\ NoHost
    /\ NoSchedule
    /\ NoDueArgs
    /\ NoTickArgs
    /\ lockargs \in ArgSets \X ArgSets
    /\ lockkeys = <<>>

\* generate_task_ids(job, kwargs) for each of the two dictionaries
GenerateTaskIds ==
    /\ lockkeys = <<>>
    /\ lockkeys' = <<generate_lock_id(FALSE, lockargs[1]),
                     generate_lock_id(FALSE, lockargs[2])>>
    /\ UNCHANGED <<now, clientVars, storeVars, logVars, workerVars,
                   waitVars, inbox, lockargs>>
    /\ UNCHANGED <<schedVars, dueVars, tickVars, hostVars>>

NextLock == GenerateTaskIds

SpecLock == InitLock /\ [][NextLock]_vars

(***************************************************************************)
(* Properties.                                                             *)
(***************************************************************************)
\* the queue_task calls made so far
Called == 1..ncalls

\* the job of a call must not overlap
NoOverlap(i) == ~ PeerRegistry[calls[i].task.name].can_overlap

\* the record of i has not reached a ready state (it may not exist yet)
NotReady(i) == tasks[i].status \notin READY_STATES

\* the two queues hold no entry for i
Unqueued(i) ==
    /\ \A n \in DOMAIN inqueue : inqueue[n] # i
    /\ \A n \in DOMAIN outqueue : outqueue[n] # i

\* a queue_task call that returned no task left nothing behind: no record,
\* no queue entry, no event
C1_NoTrace ==
    \A j \in Called :
       calls[j].pc = "suppressed" =>
          tasks[j] = NoTask /\ Unqueued(j) /\ events[j] = <<>> /\ hist[j] = <<>>

\* no two records that are not ready share a lock id that is not None
C1_LockUnique ==
    \A i, j \in Stored :
       (i # j /\ NotReady(i) /\ NotReady(j) /\ tasks[i].lock_id # <<>>)
          => tasks[i].lock_id # tasks[j].lock_id

\* a queue_task call for a job that must not overlap, made while an earlier
\* call with the same argument set has not reached a ready state, is
\* suppressed
C1_Second ==
    (ncalls' = ncalls + 1) =>
       \A i \in Called :
          ( /\ NoOverlap(i)
            /\ calls'[ncalls'].task.name = calls[i].task.name
            /\ SameArgs(calls'[ncalls'].task.kwargs, calls[i].task.kwargs)
            /\ NotReady(i) )
          => calls'[ncalls'].pc = "suppressed"

\* C1: for a job that must not overlap, the second of two queue_task calls
\* with the same argument set (in any key order), made before the first
\* task is ready, returns no task, raises nothing and creates neither a
\* record nor a queue entry; no two tasks that are not ready ever share a
\* lock id that is not None.
C1_Dedup == [](C1_NoTrace /\ C1_LockUnique) /\ [][C1_Second]_vars

\* the second call gave the same arguments in another key order and was
\* suppressed while the first task is queued
C1_Witness ==
    /\ ncalls = 2
    /\ calls[1].task.kwargs = KwAB
    /\ calls[2].task.kwargs = KwBA
    /\ calls[2].pc = "suppressed"
    /\ tasks[1].status = QUEUED
    /\ Len(inqueue) = 1

\* C2: for a job that must not overlap, two argument sets that differ (in
\* their keys or in a value) always get different lock keys.
C2_DistinctKeys ==
    (Len(lockkeys) = 2 /\ ~ SameArgs(lockargs[1], lockargs[2]))
       => lockkeys[1] # lockkeys[2]

\* the position of a status in the order QUEUED, STARTED, ready; 0 for a
\* status outside of it
Stage(status) ==
    IF status = QUEUED THEN 1
    ELSE IF status = STARTED THEN 2
    ELSE IF status \in READY_STATES THEN 3
    ELSE 0

\* the statuses written to each record, in order, are a subsequence of
\* QUEUED, STARTED, ready, and the record holds the last of them
C3_Subsequence ==
    \A i \in Ids :
       /\ \A n \in DOMAIN hist[i] : Stage(hist[i][n]) > 0
       /\ \A n \in DOMAIN hist[i] :
             n > 1 => Stage(hist[i][n - 1]) < Stage(hist[i][n])
       /\ hist[i] # <<>> => tasks[i].status = hist[i][Len(hist[i])]

\* a ready status is never changed by a later step
C3_ReadyStays ==
    \A i \in Ids :
       tasks[i].status \in READY_STATES => tasks'[i].status = tasks[i].status

\* C3: for every task id the statuses persisted in its record form a
\* subsequence of QUEUED, STARTED, one of SUCCESS, FAILURE, REVOKED; once a
\* ready status is written the status never changes, and STARTED is never
\* written after it.
C3_Monotone == []C3_Subsequence /\ [][C3_ReadyStays]_vars

\* one task went through QUEUED, STARTED, SUCCESS and another one went
\* from QUEUED to REVOKED
C3_Witness ==
    \E i, j \in Ids :
       /\ hist[i] = <<QUEUED, STARTED, SUCCESS>>
       /\ hist[j] = <<QUEUED, REVOKED>>

\* C4: the concurrency set never holds more than backlog ids.
C4_Backlog == Cardinality(concurrent_tasks) <= backlog

\* the concurrency set is full while another task waits in the in-queue
\* and the poll loop is about to be invoked
C4_Witness ==
    /\ Cardinality(concurrent_tasks) = backlog
    /\ inqueue # <<>>
    /\ poller = "scheduled"
    /\ running

\* _execute_task takes its first look at task i in this step
Dispatched(i) == exec[i].pc = "start" /\ exec'[i].pc # "start"

\* the expiry of the task handed to the thread of i is set and has passed
Overdue(i) == exec[i].task.expiry # NoneT /\ exec[i].task.expiry < now

\* what _execute_task does with an overdue task: REVOKED is saved with no
\* result and nothing is published
Revoked(i) ==
    /\ tasks'[i].status = REVOKED
    /\ tasks'[i].result = "None"
    /\ exec'[i].pc = "saved"
    /\ events'[i] = events[i]

\* C5 as stated: every task that is overdue when it is dispatched is
\* revoked
C5_AnyStep == \A i \in Ids : (Dispatched(i) /\ Overdue(i)) => Revoked(i)
C5_Original == [][C5_AnyStep]_vars

\* the same for the tasks whose job is in the worker's registry and whose
\* recorded status is in the pre-execution range
C5_Step ==
    \A i \in Ids :
       ( /\ Dispatched(i)
         /\ Overdue(i)
         /\ exec[i].task.name \in DOMAIN Registry
         /\ exec[i].task.status > STARTED )
       => Revoked(i)

\* a revoked task never had STARTED persisted nor task_started published
C5_NeverStarted ==
    \A i \in Ids :
       tasks[i].status = REVOKED =>
          /\ \A n \in DOMAIN hist[i] : hist[i][n] # STARTED
          /\ \A n \in DOMAIN events[i] : events[i][n] # "task_started"
          /\ tasks[i].result = "None"

\* C5 (amended): a task whose job is in the worker's registry, whose
\* recorded status is in the pre-execution range and whose expiry is set
\* and earlier than the time it is dispatched at ends REVOKED with no
\* result; its job is not called, STARTED is never persisted and no
\* task_started is published for it.
C5_Expired == []C5_NeverStarted /\ [][C5_Step]_vars

\* a task of a registered job was revoked past its expiry
C5_Witness ==
    \E i \in Ids :
       /\ tasks[i].status = REVOKED
       /\ tasks[i].name \in DOMAIN Registry
       /\ tasks[i].expiry < now
       /\ exec[i].pc = "done"

\* how many times a channel was published for i
Published(i, channel) ==
    Cardinality({n \in DOMAIN events[i] : events[i][n] = channel})

\* the job of i was called and raised: the thread of a registered job took
\* the handler of Exception
JobRaised(i) ==
    /\ exec[i].task.name \in DOMAIN Registry
    /\ exec[i].pc = "crashed" \/ exec[i].status = FAILURE

\* C6: when the job body raises, FAILURE is persisted with the summary of
\* the failure as result, the id is removed from the concurrency set,
\* task_done is published, and the error never leaves _execute_task.
C6_Failure ==
    \A i \in Ids :
       JobRaised(i) =>
          /\ exec[i].pc # "crashed"
          /\ tasks[i].status = FAILURE
          /\ tasks[i].result = "failure"
          /\ exec[i].pc = "done" =>
                i \notin concurrent_tasks /\ Published(i, "task_done") = 1

\* _execute_task has ended for i after expiry, a return of the job or an
\* error
Ended(i) == exec[i].pc \in {"crashed", "done"}

\* C7: a dispatched task that ended by expiry, by a normal return or by an
\* error (a job missing from the registry included) has its id out of the
\* concurrency set and exactly one task_done published for it.
C7_Released ==
    \A i \in Ids :
       Ended(i) => i \notin concurrent_tasks /\ Published(i, "task_done") = 1

\* C8: a caller of wait_for_task whose get_task returned a record in a
\* ready state is resolved with that record as soon as its coroutine goes
\* on, without being suspended on a handle, and no handle is left for the id.
C8_Immediate ==
    \A w \in Waiters :
       (waiters[w].pc # "idle" /\ waiters[w].task.status \in READY_STATES) =>
          \/ waiters[w].pc = "fetched"
          \/ /\ waiters[w].pc = "resolved"
             /\ waiters[w].got = waiters[w].task
             /\ callbacks[waiters[w].id] = NoHandle

\* the callers suspended on the handle of id i
Suspended(i) == {w \in Waiters : waiters[w].pc = "pending" /\ waiters[w].id = i}

\* no caller is resolved twice, every suspended caller waits on the handle
\* the callbacks map holds for its id, and a resolved caller holds a ready
\* record of the id it asked for
C9_Shared ==
    \A w \in Waiters :
       /\ waiters[w].n <= 1
       /\ waiters[w].pc = "pending" =>
             /\ waiters[w].handle # NoHandle
             /\ callbacks[waiters[w].id] = waiters[w].handle
       /\ waiters[w].pc = "resolved" =>
             /\ waiters[w].n = 1
             /\ waiters[w].got.status \in READY_STATES
             /\ waiters[w].got.name = tasks[waiters[w].id].name

\* a caller is resolved only by task_done_callback for its id, with the
\* record the callback fetched; when the callback pops a handle, every
\* caller suspended for the id is resolved in that step and the handle is
\* removed from the map
C9_Fire ==
    /\ \A w \in Waiters :
          waiters'[w].n # waiters[w].n =>
             \E h \in handlers :
                /\ h \notin handlers'
                /\ h.id = waiters[w].id
                /\ waiters[w].pc = "pending"
                /\ waiters'[w].got = h.task
    /\ \A h \in handlers :
          (h \notin handlers' /\ callbacks[h.id] # NoHandle) =>
             /\ callbacks'[h.id] = NoHandle
             /\ \A w \in Suspended(h.id) : waiters'[w].pc = "resolved"

Drained == Truthy(max_tasks) /\ processed >= max_tasks

\* the poll loop is invoked with max_tasks reached and nothing executing
DrainedIdle == poller = "scheduled" /\ Drained /\ concurrent_tasks = {}

\* what the stop branch does in one step: worker.stop(), no pop, no
\* dispatch, no next invocation
Stops ==
    /\ poller' = "returned"
    /\ ~ running'
    /\ processed' = processed
    /\ concurrent_tasks' = concurrent_tasks
    /\ exec' = exec
    /\ <<inqueue, outqueue>>' = <<inqueue, outqueue>>

\* C10 as stated: every invocation of the poll loop with max_tasks reached
\* and an empty concurrency set takes the branch that stops the worker
C10_Original == DrainedIdle => PollBranch = "stop"

\* the same for a running worker with a positive backlog
C10_StopBranch ==
    (DrainedIdle /\ running /\ backlog > 0) => PollBranch = "stop"

\* once max_tasks is reached nothing is popped or dispatched, and an
\* invocation of the poll loop that takes the stop branch calls
\* worker.stop(), pops nothing, dispatches nothing and schedules nothing
C10_Step ==
    /\ Drained =>
          /\ poller' # "popping"
          /\ processed' = processed
          /\ concurrent_tasks' \subseteq concurrent_tasks
          /\ Len(inqueue') >= Len(inqueue)
          /\ outqueue' = outqueue
    /\ (DrainedIdle /\ PollBranch = "stop" /\ poller' # poller) => Stops

\* C10 (amended): with max_tasks = M > 0 and backlog > 0, an invocation of
\* the poll loop of a running worker that finds processed >= M and an empty
\* concurrency set calls worker.stop(), pops nothing, dispatches nothing
\* and schedules no other invocation; whenever processed >= M the loop
\* neither pops nor dispatches.
C10_Drain == []C10_StopBranch /\ [][C10_Step]_vars

\* the poll loop stopped the worker after max_tasks tasks
C10_Witness ==
    /\ poller = "returned"
    /\ ~ running
    /\ processed = max_tasks
    /\ concurrent_tasks = {}

\* the call i named a job the registry of the backend does not hold
Unknown(i) == calls[i].task.name \notin DOMAIN Registry

\* a call that named an unknown job raised TaskNotAvailable and left no
\* record, no lock, no queue entry and no event
C11_NoTrace ==
    \A i \in Called :
       Unknown(i) =>
          /\ calls[i].pc = "TaskNotAvailable"
          /\ tasks[i] = NoTask
          /\ \A l \in locks : l[2] # i
          /\ Unqueued(i)
          /\ events[i] = <<>>

\* the step of such a call changes neither the store, nor the events, nor
\* the schedule entries
C11_Frame ==
    (ncalls' = ncalls + 1 /\ calls'[ncalls'].pc = "TaskNotAvailable") =>
       UNCHANGED <<storeVars, logVars, schedVars>>

\* C11: queue_task with a job name that is not in the registry raises
\* TaskNotAvailable and leaves the task state as it was: no record, no
\* lock entry, no queue entry, no task_queued event, no update of a
\* schedule entry.
C11_Unknown == []C11_NoTrace /\ [][C11_Frame]_vars

\* a call named an unknown job after another call had queued a task
C11_Witness ==
    /\ ncalls = 2
    /\ tasks[1] # NoTask
    /\ calls[2].pc = "TaskNotAvailable"
    /\ calls[2].task.name = "ghost"

\* C12: outside of the window between the two store operations of a
\* queue_task call that is still running, the lock table holds no key
\* whose task record does not exist, and no record with a lock id exists
\* without its lock entry.
C12_Atomic ==
    /\ \A l \in locks : calls[l[2]].pc # "free" => tasks[l[2]] # NoTask
    /\ \A i \in Stored :
          tasks[i].lock_id # <<>> => <<tasks[i].lock_id, i>> \in locks

\* the channel a is published for i, and before it b is not
Before(i, a, b) ==
    \A n \in DOMAIN events[i] :
       events[i][n] = b => \E k \in 1..(n - 1) : events[i][k] = a

\* C13: for every task id the events are published, and so observed by
\* every subscriber, in the order task_queued, task_started, task_done.
C13_Order ==
    \A i \in Ids :
       /\ Before(i, "task_queued", "task_started")
       /\ Before(i, "task_queued", "task_done")
       /\ Published(i, "task_started") > 0 =>
             Before(i, "task_started", "task_done")

\* max(run_every - (now - last_run_at), 0)
Remaining == LET r == sched.run_every - (sched.time - sched.last_run_at)
             IN  IF r < 0 THEN 0 ELSE r

\* C14: is_due returns (true, run_every in seconds) exactly when the
\* remaining time max(run_every - (now - last_run_at), 0) is 0, that is
\* when now - last_run_at >= run_every, and (false, remaining) otherwise.
C14_IsDue ==
    due # <<>> =>
       /\ due[1] <=> Remaining = 0
       /\ due[1] <=> sched.time - sched.last_run_at >= sched.run_every
       /\ due[1] => due[2] = sched.run_every
       /\ ~ due[1] => due[2] = Remaining

\* is_due answered for the job that runs every 60 seconds: (true, 60) one
\* second late
C14_Witness ==
    /\ sched = SchedArg(NoneT, 100, 60, 161)
    /\ due = <<TRUE, 60>>

\* C20: with an anchor, scheduled_last_run_at is anchor + k * run_every for
\* an integer k, and the largest such value that does not exceed
\* last_run_at.
C20_Anchored ==
    (anchored # <<>> /\ sched.anchor # NoneT) =>
       /\ (anchored[1] - sched.anchor) % sched.run_every = 0
       /\ anchored[1] <= sched.last_run_at
       /\ anchored[1] + sched.run_every > sched.last_run_at

\* the can_overlap of the job of a task resolves to true
Overlaps(task) ==
    /\ task.name \in DOMAIN Registry
    /\ \/ task.name \notin Callable /\ Registry[task.name].can_overlap
       \/ task.name \in Callable /\ "a" \in KwKeys(task.kwargs)

\* a queue_task call for such a job gets no lock id, leaves the lock table
\* as it is and goes on to queue its task under the next id
C15_Step ==
    (ncalls' = ncalls + 1 /\ Overlaps(calls'[ncalls'].task)) =>
       /\ calls'[ncalls'].task.lock_id = <<>>
       /\ calls'[ncalls'].pc = "free"
       /\ locks' = locks

\* no such call is ever suppressed, the record it commits is the one of
\* its own id and holds no lock id, and no lock is held for it
C15_Free ==
    \A i \in Called :
       Overlaps(calls[i].task) =>
          /\ calls[i].pc # "suppressed"
          /\ tasks[i] # NoTask => tasks[i].lock_id = <<>>
          /\ \A l \in locks : l[2] # i

\* C15: when can_overlap resolves to true (a true value, or a callable that
\* returns true for the arguments), no lock key is produced and queue_task
\* queues a new task under a fresh id, however many tasks of the job with
\* the same arguments are queued or running; the lock table is left alone.
C15_Overlap == []C15_Free /\ [][C15_Step]_vars

\* a second task of a job is queued with the same arguments while the
\* first one is running
C15_Witness ==
    /\ ncalls = 2
    /\ tasks[1].name = tasks[2].name
    /\ tasks[1].kwargs = tasks[2].kwargs
    /\ Overlaps(tasks[1])
    /\ tasks[1].status = STARTED
    /\ tasks[2].status = QUEUED

\* the callers whose timeout fires in a step
TimedOut == {w \in Waiters : waiters[w].pc # "timedout" /\ waiters'[w].pc = "timedout"}

\* a step in which a timeout fires changes the coroutine of that caller and
\* nothing else
C16_Step ==
    TimedOut # {} =>
       /\ tasks' = tasks /\ locks' = locks
       /\ inqueue' = inqueue /\ outqueue' = outqueue
       /\ concurrent_tasks' = concurrent_tasks
       /\ exec' = exec /\ running' = running /\ poller' = poller
       /\ processed' = processed
       /\ events' = events /\ inbox' = inbox /\ handlers' = handlers
       /\ callbacks' = callbacks
       /\ \A v \in Waiters \ TimedOut : waiters'[v] = waiters[v]
       /\ Cardinality(TimedOut) = 1

\* a caller that timed out is not resumed later, and a caller still
\* suspended on the Deferred of the id is resumed by task_done_callback as
\* if no timeout had fired
C16_After ==
    /\ \A w \in Waiters : waiters[w].pc = "timedout" => waiters'[w] = waiters[w]
    /\ \A h \in handlers :
          (handlers' = handlers \ {h} /\ h.task # NoTask) =>
             \A w \in Suspended(h.id) : waiters'[w].pc = "resolved"

\* C16: a timeout of wait_for_task cancels the suspension of its caller
\* only: the task record, the lock table, the queues and the concurrency
\* set are as they were, the execution of the task is where it was, and the
\* other callers and the Deferred of the id are untouched.
C16_Timeout == [][C16_Step /\ C16_After]_vars

\* one caller timed out while the other, suspended on the same Deferred,
\* was resumed with the finished task
C16_Witness ==
    /\ waiters["w1"].pc = "timedout"
    /\ waiters["w1"].handle # NoHandle
    /\ waiters["w2"].pc = "resolved"
    /\ waiters["w2"].id = waiters["w1"].id
    /\ tasks[waiters["w1"].id].status \in READY_STATES

\* the ids whose task was handed to _execute_task with a status that is
\* not above STARTED
Invalid == {i \in Ids : exec[i].pc # "none" /\ exec[i].task.status <= STARTED}

\* the events of the execution of a task
Executed(i) == {k \in 1..Len(events[i]) : events[i][k] \in {"task_started", "task_done"}}

C17_Step ==
    \A i \in Invalid :
       (exec[i].task.name \in DOMAIN Registry /\ exec'[i] # exec[i]) =>
          /\ exec[i].pc = "start"
          /\ exec'[i] = [exec[i] EXCEPT !.pc = "abandoned"]
          /\ concurrent_tasks' = concurrent_tasks \ {i}
          /\ tasks' = tasks /\ hist' = hist /\ events' = events
          /\ locks' = locks /\ inqueue' = inqueue /\ outqueue' = outqueue

\* and once it returned, the record is the one it was handed, no
\* task_started and no task_done was published for the id, and the id is
\* not in the concurrency set
C17_Left ==
    \A i \in Invalid :
       (exec[i].task.name \in DOMAIN Registry /\ exec[i].pc # "start") =>
          /\ exec[i].pc = "abandoned"
          /\ tasks[i] = exec[i].task
          /\ Executed(i) = {}
          /\ i \notin concurrent_tasks

Queued(name) ==
    {i \in Called : /\ calls[i].task.name = name
                    /\ calls[i].pc \in {"queued", "NameError"}
                    /\ tasks[i] # NoTask}

\* the total_run_count of the entry of a job: nothing was counted when no
\* entry was built
TotalRunCount(name) ==
    IF entries.built /\ name \in entries.names
    THEN entries.total_run_count[name] ELSE 0

\* C19: on a backend that schedules periodic jobs, the total_run_count of
\* the entry of every periodic job is the number of queue_task calls for
\* the job that queued a task; calls that were suppressed or that failed
\* are not counted.
C19_Count ==
    schedule_periodic =>
       \A name \in Periodic \cap DOMAIN Registry :
          TotalRunCount(name) = Cardinality(Queued(name))

\* C18: in one tick of a backend that schedules periodic jobs, an error
\* raised for one entry is caught and every other entry is still evaluated
\* (and queued if due): no entry is left out.
C18_Isolated ==
    (schedule_periodic /\ tickout # <<>>) =>
       \A k \in 1..Len(tickin[2]) : tickout[1][k] # "skipped"

\* C21: an invocation of may_pool_task that finds the worker not running
\* pops nothing, dispatches nothing and schedules no other invocation of
\* the poll loop.
C21_Stopped ==
    (poller = "scheduled" /\ ~ running) =>
       /\ PollBranch = "notrunning"
       /\ PollNext \notin {"popping", "scheduled"}

\* C22: once close(worker) was called, no invocation of the poll loop is
\* scheduled on the loop of the worker any more, whatever number of
\* invocations ran before.
C22_Closed == closed => poller # "scheduled"

\* C23: the lock key depends on the job name as well as on the arguments:
\* two queue_task calls for different jobs that must not overlap never get
\* the same lock key, and a call is suppressed only by a task of its own
\* job.
C23_PerJob ==
    \A i, j \in Called :
       (calls[i].task.name # calls[j].task.name
           /\ calls[i].task.lock_id # <<>>) =>
          /\ calls[i].task.lock_id # calls[j].task.lock_id
          /\ ~ (calls[j].pc = "suppressed"
                /\ \E l \in locks : l[1] = calls[j].task.lock_id /\ l[2] = i)

\* a step of _execute_task for the id i: thread_pool.apply runs it on a
\* thread of the pool, not on the loop of the worker
PoolStep(i) == exec[i].pc # "none" /\ exec'[i] # exec[i]

\* C24: the concurrency set is written by steps of the control loop only:
\* no step that _execute_task takes on a pool thread changes it.
C24_Marshaled ==
    [][(\E i \in Ids : PoolStep(i)) => concurrent_tasks' = concurrent_tasks]_vars

\* every entry of the lock table stays, and the table maps a key to one id
C25_Kept ==
    /\ locks \subseteq locks'
    /\ \A l \in locks', k \in locks' : l[1] = k[1] => l = k

\* a queue_task call whose lock key is in the table is suppressed, also
\* when the task that holds the key is ready
C25_Still ==
    (ncalls' = ncalls + 1
        /\ \E l \in locks : l[1] = calls'[ncalls'].task.lock_id) =>
       /\ calls'[ncalls'].pc = "suppressed"
       /\ locks' = locks

\* a suppressed call queued nothing
C25_Nothing ==
    \A i \in Called :
       calls[i].pc = "suppressed" => tasks[i] = NoTask /\ Unqueued(i)

\* C25: no operation removes or overwrites an entry of the lock table: a
\* key that maps to a task id maps to it in every later state, and after
\* the task reached SUCCESS, FAILURE or REVOKED a queue_task call with the
\* same arguments is still suppressed and returns no task.
C25_Permanent == []C25_Nothing /\ [][C25_Kept /\ C25_Still]_vars

\* the task that holds the lock is ready, its lock is still in the table
\* and the second call with the same arguments was suppressed
C25_Witness ==
    /\ ncalls = 2
    /\ tasks[1].status \in READY_STATES
    /\ <<tasks[1].lock_id, 1>> \in locks
    /\ calls[2].task.lock_id = tasks[1].lock_id
    /\ calls[2].pc = "suppressed"

\* how many times the id i is in a queue
Places(q, i) == Cardinality({n \in DOMAIN q : q[n] = i})

\* an id is in one of the two queues at most, once, and only after its
\* record was committed; it is in one concurrency set at most, that of the
\* worker that popped it, and its job is started once at most
C26_Once ==
    \A i \in Ids :
       /\ Places(inqueue, i) + Places(outqueue, i) <= 1
       /\ (Places(inqueue, i) + Places(outqueue, i) = 1) <=> tasks[i] # NoTask
       /\ ~ (i \in peer_tasks /\ exec[i].pc # "none")
       /\ (i \in peer_tasks \/ exec[i].pc # "none") <=> Places(outqueue, i) = 1
       /\ i \in concurrent_tasks => exec[i].pc # "none"
       /\ Published(i, "task_started") <= 1

\* a pop moves the tail of the in-queue to the out-queue in one step and
\* hands it to one worker; nothing leaves the out-queue
C26_Pop ==
    /\ outqueue' # outqueue =>
          /\ inqueue # <<>>
          /\ inqueue' = SubSeq(inqueue, 1, Len(inqueue) - 1)
          /\ outqueue' = <<inqueue[Len(inqueue)]>> \o outqueue
          /\ \/ peer_tasks' = peer_tasks \cup {inqueue[Len(inqueue)]}
                /\ exec' = exec
             \/ peer_tasks' = peer_tasks
                /\ exec'[inqueue[Len(inqueue)]].pc = "start"
    /\ outqueue' = outqueue => (peer_tasks' = peer_tasks
                                /\ \A i \in Ids : exec[i].pc = "none"
                                                    => exec'[i].pc = "none")

\* C26: each queued id is popped from the in-queue by one poll at most,
\* whichever worker on the store it belongs to: the pop moves it to the
\* out-queue in one step and nothing pushes it back, so an id is never in
\* both queues, is in one concurrency set at most and has its job called
\* once at most.
C26_AtMostOnce == []C26_Once /\ [][C26_Pop]_vars

\* two tasks were queued: the peer popped one, this worker popped the other
\* and ran it to its end
C26_Witness ==
    /\ peer_tasks # {}
    /\ \E i \in Ids : i \notin peer_tasks /\ exec[i].pc = "done"
    /\ Len(outqueue) = 2
    /\ inqueue = <<>>

\* the task_done event of the id i was published and handled to its end:
\* no message and no task_done_callback is left that could fire a handle
Handled(i) ==
    /\ exec[i].pc = "done"
    /\ \A n \in DOMAIN inbox : inbox[n] # i
    /\ \A h \in handlers : h.id # i

\* C27: no caller that fetched the record of a task before it was ready
\* stays suspended on its handle once the task is ready and its task_done
\* event was handled: the handling of the event resolves it, whatever the
\* order of the steps.
C27_NoLost ==
    \A w \in Waiters :
       (waiters[w].pc = "pending"
           /\ waiters[w].task.status \notin READY_STATES) =>
          ~ (tasks[waiters[w].id].status \in READY_STATES
                /\ Handled(waiters[w].id))

\* the record of i holds a ready status and the worker has released i
Persisted(i) == tasks[i].status \in READY_STATES /\ i \notin concurrent_tasks

\* once task_done was published for an id its record is ready and the id
\* is out of the concurrency set; so is it from the release on; and what
\* a subscriber reads when the message reaches it is a ready record
C28_Ready ==
    /\ \A i \in Ids :
          (Published(i, "task_done") > 0 \/ exec[i].pc = "released") =>
             Persisted(i)
    /\ \A n \in DOMAIN inbox : Persisted(inbox[n])
    /\ \A h \in handlers : h.task.status \in READY_STATES

\* the step that publishes task_done finds the ready status saved and the
\* id released, and changes neither
C28_Publish ==
    \A i \in Ids :
       Published(i, "task_done")' > Published(i, "task_done") =>
          /\ Persisted(i)
          /\ tasks' = tasks
          /\ concurrent_tasks' = concurrent_tasks

\* C28: when task_done is published for an id, the record already holds a
\* status of READY_STATES and the id has left the concurrency set of the
\* backend that ran it (save, release, publish, in that order), so a
\* subscriber that reads the record on task_done never reads a status
\* that is not ready.
C28_Done == []C28_Ready /\ [][C28_Publish]_vars

\* task_done_callback read the record of a task whose task_done was
\* published, and the record is ready
C28_Witness ==
    \E h \in handlers :
       /\ Published(h.id, "task_done") = 1
       /\ h.task.status \in READY_STATES
       /\ h.task = tasks[h.id]

\* the tasks that were handed to the thread pool
Handed2Pool == {i \in Ids : exec[i].pc # "none"}

\* processed counts the tasks handed to the pool; with a limit it stays
\* within it; without one the poll loop never stops the worker
C29_Bound ==
    /\ processed = Cardinality(Handed2Pool)
    /\ Truthy(self_max_tasks) => processed <= self_max_tasks
    /\ ~ Truthy(self_max_tasks) => (running /\ poller # "returned")

\* processed changes by one, in the step that hands a task to the pool
C29_Step ==
    processed' # processed =>
       /\ processed' = processed + 1
       /\ \E i \in Ids : /\ exec[i].pc = "none"
                          /\ exec'[i].pc = "start"
                          /\ Handed2Pool' = Handed2Pool \cup {i}

\* C29: on a backend started once with max_tasks = M > 0, processed is
\* incremented once for each task handed to the thread pool and never
\* exceeds M; with max_tasks = 0 it has no bound and the poll loop never
\* stops the worker.
C29_Processed == []C29_Bound /\ [][C29_Step]_vars

\* the limit was reached with a task still in the in-queue, and the poll
\* loop stopped the worker
C29_Witness ==
    /\ Truthy(self_max_tasks)
    /\ processed = self_max_tasks
    /\ inqueue # <<>>
    /\ poller = "returned"

====
